---------------------------- MODULE Spec2Model ----------------------------
(***************************************************************************)
(* Mail Goggles content script (src/content.js): the challenge gate that   *)
(* sits in front of the host page's send control; and the busy flag of the *)
(* settings editor (src/popup.js).                                         *)
(*                                                                         *)
(* Time is counted in units of 100 ms, the greatest common divisor of the  *)
(* one-shot delays of the script (500 ms, 800 ms, 3000 ms).  Every pending *)
(* one-shot timer carries the time that remains until it is due, and a     *)
(* timer fires when that time is 0.  User events are ordered against the   *)
(* due timers only: time moves from one due timer to the next, and an      *)
(* event takes place at one of these instants.  The two repeating timers   *)
(* (the 1000 ms countdown and the 2000 ms rescan) run with a phase that is *)
(* independent of every user event, so their callbacks may fire at any     *)
(* moment while the interval is registered.                                *)
(*                                                                         *)
(* A load of the content script completes in a later task than the one    *)
(* that started it, with the stored items or as a failure (the store API   *)
(* is missing, the callback finds lastError, or the call throws).  Nothing *)
(* makes the store call back.                                              *)
(***************************************************************************)
EXTENDS Integers, Sequences, FiniteSets, TLC

(***************************************************************************)
(* Program constants                                                       *)
(***************************************************************************)
\* EXTENSION_CONFIG.CHALLENGE_TIMEOUT: 3000 ms, in units of 100 ms
CHALLENGE_TIMEOUT == 30
\* EXTENSION_CONFIG.MODAL_ANIMATION_DELAY: 500 ms, in units of 100 ms
MODAL_ANIMATION_DELAY == 5
\* the delay between a successful checkAllAnswers and onSuccess: 800 ms
SUCCESS_DELAY == 8
NIGHT_START == 22
NIGHT_END == 8

DEFAULT_SETTINGS ==
    [enabled |-> TRUE, nightMode |-> FALSE, numProblems |-> 3, timeLimit |-> 60]

(***************************************************************************)
(* Bounds of the model                                                     *)
(***************************************************************************)
\* store reads in flight at once (a read a timer callback starts beyond the
\* bound is one the store never answers)
MaxLoads == 2
\* showMathChallenge closures alive at once (displayed, or held by a timer)
MaxSessions == 2
\* successful submit triggers whose timers are pending at once
MaxSubmits == 2
\* click hooks counted on one control
MaxListeners == 2
\* countdown ticks of one session within one countdown period
MaxTicks == 1
\* expiries of the countdown of one session
MaxExpiries == 2

(***************************************************************************)
(* JavaScript values and conversions                                       *)
(***************************************************************************)
Digits == <<"0", "1", "2", "3", "4", "5", "6", "7", "8", "9">>

IsDigit(c) == \E i \in 1..10 : Digits[i] = c

DigitVal(c) == (CHOOSE i \in 1..10 : Digits[i] = c) - 1

IsSpace(c) == c = " "

\* a JavaScript number: an integer or NaN
Num(n) == [nan |-> FALSE, n |-> n]

NaN == [nan |-> TRUE, n |-> 0]

\* the digits at the front of a text, as a number so far (acc) and a count
RECURSIVE ParseDigits(_, _, _)
ParseDigits(s, acc, cnt) ==
    IF s # <<>> /\ IsDigit(Head(s))
    THEN ParseDigits(Tail(s), acc * 10 + DigitVal(Head(s)), cnt + 1)
    ELSE [val |-> acc, cnt |-> cnt]

RECURSIVE SkipSpace(_)
SkipSpace(s) == IF s # <<>> /\ IsSpace(Head(s)) THEN SkipSpace(Tail(s)) ELSE s

\* parseInt(text): leading blanks, an optional sign, then decimal digits up
\* to the first other character; NaN when there is no digit
ParseInt(text) ==
    LET s    == SkipSpace(text)
        neg  == s # <<>> /\ Head(s) = "-"
        sgn  == s # <<>> /\ Head(s) \in {"-", "+"}
        body == IF sgn THEN Tail(s) ELSE s
        d    == ParseDigits(body, 0, 0)
    IN  IF d.cnt = 0 THEN NaN
        ELSE Num(IF neg THEN 0 - d.val ELSE d.val)

\* String(n) of an integer
RECURSIVE NatToText(_)
NatToText(n) ==
    IF n < 10 THEN <<Digits[n + 1]>>
    ELSE NatToText(n \div 10) \o <<Digits[(n % 10) + 1]>>

ToText(n) == IF n < 0 THEN <<"-">> \o NatToText(0 - n) ELSE NatToText(n)

\* a stored value as chrome.storage hands it back: a number, a string or null
RawInt(n) == [k |-> "number", n |-> n, s |-> <<>>]

RawText(s) == [k |-> "string", n |-> 0, s |-> s]

RawNull == [k |-> "null", n |-> 0, s |-> <<>>]

RawBool(b) == [k |-> "boolean", n |-> IF b THEN 1 ELSE 0, s |-> <<>>]

\* parseInt(raw): the value is converted to a string first
ParseIntRaw(raw) ==
    CASE raw.k = "number" -> Num(raw.n)
      [] raw.k = "string" -> ParseInt(raw.s)
      [] OTHER -> NaN

\* Boolean(raw)
ToBoolean(raw) ==
    CASE raw.k = "boolean" -> raw.n = 1
      [] raw.k = "number" -> raw.n # 0
      [] raw.k = "string" -> raw.s # <<>>
      [] OTHER -> FALSE

\* x || d for a number x: NaN and 0 are falsy
OrDefault(x, d) == IF x.nan \/ x.n = 0 THEN d ELSE x.n

Min(a, b) == IF a < b THEN a ELSE b

Max(a, b) == IF a > b THEN a ELSE b

(***************************************************************************)
(* Settings                                                                *)
(***************************************************************************)
\* a validation that falls back to the defaults but does not clamp
unclamped(rawSettings) ==
    [enabled     |-> ToBoolean(rawSettings.enabled),
     nightMode   |-> ToBoolean(rawSettings.nightMode),
     numProblems |-> OrDefault(ParseIntRaw(rawSettings.numProblems), 3),
     timeLimit   |-> OrDefault(ParseIntRaw(rawSettings.timeLimit), 60)]

validateSettings(rawSettings) ==
    [enabled     |-> ToBoolean(rawSettings.enabled),
     nightMode   |-> ToBoolean(rawSettings.nightMode),
     numProblems |-> Min(Max(OrDefault(ParseIntRaw(rawSettings.numProblems), 3), 1), 10),
     timeLimit   |-> Min(Max(OrDefault(ParseIntRaw(rawSettings.timeLimit), 60), 0), 3600)]

\* validateSettings of the settings editor (popup.js), the same expression
validateSettings_popup(rawSettings) ==
    [enabled     |-> ToBoolean(rawSettings.enabled),
     nightMode   |-> ToBoolean(rawSettings.nightMode),
     numProblems |-> Min(Max(OrDefault(ParseIntRaw(rawSettings.numProblems), 3), 1), 10),
     timeLimit   |-> Min(Max(OrDefault(ParseIntRaw(rawSettings.timeLimit), 60), 0), 3600)]

\* a key the store does not hold
RawAbsent == [k |-> "absent", n |-> 0, s |-> <<>>]

\* chrome.storage.sync.get(defaults, callback): the items handed to the
\* callback hold the default of every key the store does not hold
storageGet(defaults, items) ==
    [enabled     |-> IF items.enabled = RawAbsent
                     THEN RawBool(defaults.enabled) ELSE items.enabled,
     nightMode   |-> IF items.nightMode = RawAbsent
                     THEN RawBool(defaults.nightMode) ELSE items.nightMode,
     numProblems |-> IF items.numProblems = RawAbsent
                     THEN RawInt(defaults.numProblems) ELSE items.numProblems,
     timeLimit   |-> IF items.timeLimit = RawAbsent
                     THEN RawInt(defaults.timeLimit) ELSE items.timeLimit]

\* a gate policy whose night window does not wrap around midnight
sameDayWindow(s, h) ==
    IF ~s.enabled THEN FALSE
    ELSE IF ~s.nightMode THEN TRUE
    ELSE h >= NIGHT_START /\ h < NIGHT_END

\* shouldBeActive() on the in-memory settings s at local hour h
shouldBeActive(s, h) ==
    IF ~s.enabled THEN FALSE
    ELSE IF ~s.nightMode THEN TRUE
    ELSE h >= NIGHT_START \/ h < NIGHT_END

(***************************************************************************)
(* Problem generator                                                       *)
(***************************************************************************)
operators == <<"+", "-", "*">>

\* a generator that subtracts the operands in the order they were drawn
subtractsAsDrawn(r1, r2, op, r3, r4) ==
    CASE operators[op + 1] = "+" ->
           [question |-> <<r1 + 5, "+", r2 + 5>>, answer |-> (r1 + 5) + (r2 + 5)]
      [] operators[op + 1] = "-" ->
           [question |-> <<r1 + 5, "-", r2 + 5>>, answer |-> (r1 + 5) - (r2 + 5)]
      [] operators[op + 1] = "*" ->
           [question |-> <<r3 + 2, "x", r4 + 2>>, answer |-> (r3 + 2) * (r4 + 2)]

\* a generator that multiplies the operands of the large range
multipliesLargeOperands(r1, r2, op, r3, r4) ==
    CASE operators[op + 1] = "+" ->
           [question |-> <<r1 + 5, "+", r2 + 5>>, answer |-> (r1 + 5) + (r2 + 5)]
      [] operators[op + 1] = "-" ->
           [question |-> <<Max(r1 + 5, r2 + 5), "-", Min(r1 + 5, r2 + 5)>>,
            answer |-> Max(r1 + 5, r2 + 5) - Min(r1 + 5, r2 + 5)]
      [] operators[op + 1] = "*" ->
           [question |-> <<r1 + 5, "x", r2 + 5>>, answer |-> (r1 + 5) * (r2 + 5)]

\* a generator that computes the difference before it orders the operands
answerBeforeSwap(r1, r2, op, r3, r4) ==
    CASE operators[op + 1] = "+" ->
           [question |-> <<r1 + 5, "+", r2 + 5>>, answer |-> (r1 + 5) + (r2 + 5)]
      [] operators[op + 1] = "-" ->
           [question |-> <<Max(r1 + 5, r2 + 5), "-", Min(r1 + 5, r2 + 5)>>,
            answer |-> (r1 + 5) - (r2 + 5)]
      [] operators[op + 1] = "*" ->
           [question |-> <<r3 + 2, "x", r4 + 2>>, answer |-> (r3 + 2) * (r4 + 2)]

\* generateMathProblem with the five results of Math.floor(Math.random() * n):
\* r1, r2 in 0..24, op in 0..2, r3, r4 in 0..11
generateMathProblem(r1, r2, op, r3, r4) ==
    LET num1      == r1 + 5
        num2      == r2 + 5
        operator  == operators[op + 1]
        larger    == Max(num1, num2)
        smaller   == Min(num1, num2)
        smallNum1 == r3 + 2
        smallNum2 == r4 + 2
    IN  CASE operator = "+" ->
               [question |-> <<num1, "+", num2>>, answer |-> num1 + num2]
          [] operator = "-" ->
               [question |-> <<larger, "-", smaller>>, answer |-> larger - smaller]
          [] operator = "*" ->
               [question |-> <<smallNum1, "x", smallNum2>>,
                answer |-> smallNum1 * smallNum2]


\* Math.floor(Math.random() * n), Math.random() being in [0, 1)
floorRandom(n) == 0..(n - 1)

\* the results of Math.floor(Math.random() * n) the sessions of the model
\* draw: two of the operators (n = 3), and the low end of each operand range
RandomFloor(n) == IF n = 3 THEN {1, 2} ELSE {0}

Problems ==
    {generateMathProblem(r1, r2, op, r3, r4) :
        r1 \in RandomFloor(25), r2 \in RandomFloor(25), op \in RandomFloor(3),
        r3 \in RandomFloor(12), r4 \in RandomFloor(12)}

\* numProblems calls of generateMathProblem; the calls of one batch draw alike
ProblemSets(numProblems) == {[i \in 1..numProblems |-> p] : p \in Problems}

(***************************************************************************)
(* The environment: host page, store, user                                 *)
(***************************************************************************)
\* the controls of the host page the locator strategies match
Buttons == {"send", "feedback"}

\* what new Date().getHours() may return at a gating decision
Hours == {12, 23}

\* what the settings editor may have written to the store
StoredSettings ==
    {[enabled |-> RawBool(TRUE), nightMode |-> RawBool(FALSE),
      numProblems |-> RawInt(2), timeLimit |-> RawInt(1)],
     [enabled |-> RawBool(TRUE), nightMode |-> RawBool(TRUE),
      numProblems |-> RawInt(1), timeLimit |-> RawInt(-1)]}

\* what the user may leave in an answer input whose problem has answer a
WrongText == <<"7">>

InputTexts(a) == {<<>>, ToText(a), WrongText}

\* the answer sheets the user may produce for problems probs: every input
\* holds the right answer, except that the last one may be blank or wrong
AnswerSheets(probs) ==
    {[i \in 1..Len(probs) |->
        IF i < Len(probs) THEN ToText(probs[i].answer) ELSE last] :
            last \in InputTexts(probs[Len(probs)].answer)}

(***************************************************************************)
(* Target locator                                                          *)
(***************************************************************************)
\* the lower-cased text of a control, as its words
textContent(b) == IF b = "send" THEN <<"send">> ELSE <<"send", "feedback">>

includes(text, word) == \E i \in 1..Len(text) : text[i] = word

isVisibleSendButton(b) ==
    includes(textContent(b), "send") /\ ~includes(textContent(b), "feedback")

\* the test of line 156: the control carries a truthy gadiProtected mark
isProtected(btn) == btn.gadiProtected # ""

\* button.addEventListener('click', ...): one more hook on the control
addEventListener(n) == Min(n + 1, MaxListeners)

\* one pass of findAndProtectSendButtons over the controls bs
findAndProtectSendButtons(bs) ==
    [b \in Buttons |->
        IF isProtected(bs[b]) THEN bs[b]
        ELSE IF ~isVisibleSendButton(b) THEN bs[b]
        ELSE [gadiProtected |-> "true",
              listeners |-> addEventListener(bs[b].listeners)]]

(***************************************************************************)
(* Store reads in flight                                                   *)
(***************************************************************************)
\* the host's own handling of a click runs unless the event was stopped
\* while it was being dispatched
hostAction(stopped) == ~stopped

\* a chrome.storage.sync.get call in flight, with what its callback closes
\* over: who called loadSettings and, for a click hook, the clicked control
\* and the click event (user-made or programmatic; what the host did with it)
InitLoad ==
    [origin |-> "init", button |-> "none", trusted |-> FALSE,
     hostActed |-> FALSE, twin |-> "none"]

ChangeLoad ==
    [origin |-> "change", button |-> "none", trusted |-> FALSE,
     hostActed |-> FALSE, twin |-> "none"]

\* what is known of the reads the other hooks of the same user click have
\* started: there are none, none of them has started a session yet, or one
\* of them has.  History, read by the properties only.
Twins == {"none", "waits", "started"}

\* the tag of the reads of a user click that runs k hooks
twinOf(k) == IF k > 1 THEN "waits" ELSE "none"

\* the hook returns right after it has called loadSettings (lines 175-181):
\* nothing has stopped the event when its dispatch goes on to the host
ClickLoad(b, trusted, twin) ==
    [origin |-> "click", button |-> b, trusted |-> trusted,
     hostActed |-> hostAction(FALSE), twin |-> twin]

LoadKinds ==
    {InitLoad, ChangeLoad}
    \cup {ClickLoad(b, FALSE, "none") :
            b \in {x \in Buttons : isVisibleSendButton(x)}}
    \cup {ClickLoad(b, TRUE, twin) :
            b \in {x \in Buttons : isVisibleSendButton(x)}, twin \in Twins}

VARIABLES
    challengeActive,  \* the module-level flag
    settings,         \* the in-memory settings object
    store,            \* the stored settings (chrome.storage.sync)
    scanning,         \* the rescan interval is registered
    buttons,          \* per control: dataset.gadiProtected and attached click hooks
    loads,            \* per kind, the store reads whose callback has not run
    sessions,         \* the showMathChallenge closures that are still alive
    call,             \* one application of a function of the script, on its own
    popup             \* the settings editor (popup.js): its busy flag, the
                      \* handle in loadTimeout, its store calls

vars ==
    <<challengeActive, settings, store, scanning, buttons, loads, sessions, call,
      popup>>

\* the number of store reads in flight
RECURSIVE inFlightOver(_, _)
inFlightOver(ls, S) ==
    IF S = {} THEN 0
    ELSE LET l == CHOOSE x \in S : TRUE
         IN  ls[l] + inFlightOver(ls, S \ {l})

inFlight(ls) == inFlightOver(ls, LoadKinds)

(***************************************************************************)
(* Challenge session: the closure of one showMathChallenge call            *)
(***************************************************************************)
\* the question text and answer input created for each problem
renderInputs(probs) ==
    [i \in 1..Len(probs) |->
        [question |-> probs[i].question,
         correct  |-> ToText(probs[i].answer),
         value    |-> <<>>]]

\* the countdown interval is created only for a positive time limit (line 328)
timerEnabled(currentSettings) == currentSettings.timeLimit > 0

newSession(currentSettings, b, probs) ==
    [button          |-> b,
     numProblems     |-> currentSettings.numProblems,
     timeLimit       |-> currentSettings.timeLimit,
     timeRemaining   |-> currentSettings.timeLimit,
     timerInterval   |-> timerEnabled(currentSettings),
     currentProblems |-> probs,
     inputs          |-> renderInputs(probs),
     inDOM           |-> TRUE,
     \* the pending one-shot timers of the closure, each with the time left:
     \* teardown timers of checkAllAnswers, and the two timers of onSuccess
     successTimers   |-> <<>>,
     replayTimers    |-> <<>>,
     cooldownTimers  |-> <<>>,
     \* history of the session, read by the properties only
     successCalls    |-> 0,
     replays         |-> 0,
     dismissed       |-> FALSE,
     expiries        |-> 0]

\* a closure is alive while its element is displayed or a timer holds it
alive(s) ==
    \/ s.inDOM \/ s.timerInterval
    \/ s.successTimers # <<>> \/ s.replayTimers # <<>> \/ s.cooldownTimers # <<>>

\* Nothing can read or edit what a removed element shows, and the ticks of
\* a countdown whose element is gone change nothing that can be seen: the
\* model forgets the settings, questions, inputs and countdown of such a
\* closure.
forget(s) ==
    IF s.inDOM THEN s
    ELSE [s EXCEPT !.numProblems = 0, !.timeLimit = 0, !.timeRemaining = 0,
                   !.currentProblems = <<>>, !.inputs = <<>>, !.expiries = 0]

\* the closures that are left once the dead ones are dropped
collect(ss) == SelectSeq([n \in 1..Len(ss) |-> forget(ss[n])], alive)

\* the pending one-shot timers of a closure, and of all closures
pendingTimers(s) ==
    Len(s.successTimers) + Len(s.replayTimers) + Len(s.cooldownTimers)

RECURSIVE pendingIn(_)
pendingIn(ss) ==
    IF ss = <<>> THEN 0 ELSE pendingTimers(Head(ss)) + pendingIn(Tail(ss))

\* a showMathChallenge that does not look at the flag
unguarded(active) == FALSE

\* the guard of showMathChallenge (line 229)
sessionGuard(active) == active

\* backdrop.remove(): the element leaves the document; the closure lives
\* on with its timers
removeBackdrop(s) == [s EXCEPT !.inDOM = FALSE]

\* existing.remove() of showMathChallenge (lines 232-235)
removeExisting(ss) ==
    [i \in 1..Len(ss) |-> IF ss[i].inDOM THEN removeBackdrop(ss[i]) ELSE ss[i]]

\* showMathChallenge on the gate state g
showMathChallenge(g, currentSettings, b, probs) ==
    IF sessionGuard(g.active) THEN g
    ELSE [g EXCEPT !.active = TRUE,
                   !.sessions = Append(removeExisting(g.sessions),
                                       newSession(currentSettings, b, probs))]

\* what is left of a text after the digits at its front
DropDigits(s) == SubSeq(s, ParseDigits(s, 0, 0).cnt + 1, Len(s))

\* a text the number input takes as a number: an optional minus sign,
\* digits, an optional fraction, an optional exponent
validFloatingPoint(text) ==
    LET a       == IF text # <<>> /\ Head(text) = "-" THEN Tail(text) ELSE text
        b       == DropDigits(a)
        hasInt  == Len(b) < Len(a)
        dot     == b # <<>> /\ Head(b) = "."
        c       == IF dot THEN DropDigits(Tail(b)) ELSE b
        hasFrac == dot /\ Len(c) < Len(Tail(b))
        ex      == c # <<>> /\ Head(c) \in {"e", "E"}
        d       == IF ex /\ Tail(c) # <<>> /\ Head(Tail(c)) \in {"+", "-"}
                   THEN Tail(Tail(c))
                   ELSE IF ex THEN Tail(c) ELSE c
    IN  /\ hasInt \/ hasFrac
        /\ dot => hasFrac
        /\ IF ex THEN d # <<>> /\ DropDigits(d) = <<>> ELSE d = <<>>

\* input.value of an input of type number (line 413) after the user has
\* typed a text: the text when it is a number, the empty string otherwise
inputValue(typed) == IF validFloatingPoint(typed) THEN typed ELSE <<>>

\* userAnswer !== correctAnswer || isNaN(userAnswer), on parseInt results
answerRejected(userAnswer, correctAnswer) ==
    \/ userAnswer.nan \/ correctAnswer.nan
    \/ userAnswer.n # correctAnswer.n

\* allCorrect of checkAllAnswers
allCorrect(s) ==
    \A i \in 1..Len(s.inputs) :
        ~answerRejected(ParseInt(s.inputs[i].value), ParseInt(s.inputs[i].correct))

\* a checkAllAnswers whose failure branch clears the inputs
clearsOnFailure(s) ==
    IF allCorrect(s)
    THEN [s EXCEPT !.timerInterval = FALSE,
                   !.successTimers = Append(@, SUCCESS_DELAY)]
    ELSE [s EXCEPT !.inputs = [i \in 1..Len(@) |-> [@[i] EXCEPT !.value = <<>>]]]

\* checkAllAnswers: the success branch clears the countdown and arms the
\* teardown timer; the failure branch only shows a notice
checkAllAnswers(s) ==
    IF allCorrect(s)
    THEN [s EXCEPT !.timerInterval = FALSE,
                   !.successTimers = Append(@, SUCCESS_DELAY)]
    ELSE s

\* an expiry that restarts the countdown over the problems and inputs as
\* they are
restartOnly(s, probs) ==
    [s EXCEPT !.timeRemaining = s.timeLimit, !.expiries = @ + 1]

\* an expiry that generates a single new problem
regeneratesOne(s, probs) ==
    [s EXCEPT !.currentProblems = SubSeq(probs, 1, 1),
              !.inputs = [i \in 1..Len(s.inputs) |->
                            IF i <= 1
                            THEN [question |-> probs[i].question,
                                  correct  |-> ToText(probs[i].answer),
                                  value    |-> <<>>]
                            ELSE s.inputs[i]],
              !.timeRemaining = s.timeLimit,
              !.expiries = @ + 1]

\* handleTimerExpiration with the freshly generated problems probs
handleTimerExpiration(s, probs) ==
    [s EXCEPT !.currentProblems = probs,
              !.inputs = [i \in 1..Len(s.inputs) |->
                            IF i <= Len(probs)
                            THEN [question |-> probs[i].question,
                                  correct  |-> ToText(probs[i].answer),
                                  value    |-> <<>>]
                            ELSE s.inputs[i]],
              !.timeRemaining = s.timeLimit,
              !.expiries = @ + 1]

\* a tick that lets the countdown expire only below zero
expiresBelowZero(s, probs) ==
    LET t == [s EXCEPT !.timeRemaining = @ - 1]
    IN  IF t.timeRemaining < 0 THEN handleTimerExpiration(t, probs) ELSE t

\* one callback of the countdown interval (lines 379-386)
countdownTick(s, probs) ==
    LET t == [s EXCEPT !.timeRemaining = @ - 1]
    IN  IF t.timeRemaining <= 0 THEN handleTimerExpiration(t, probs) ELSE t

\* the backdrop click listener (lines 604-611), on the session
dismissSession(s) ==
    [removeBackdrop(s) EXCEPT !.timerInterval = FALSE, !.dismissed = TRUE]

\* the teardown timer of checkAllAnswers (lines 576-580), on the session:
\* backdrop.remove(), then onSuccess() arms the replay timer
teardown(s) ==
    [removeBackdrop(s) EXCEPT
        !.successTimers = Tail(@),
        !.successCalls = @ + 1,
        !.replayTimers = Append(@, MODAL_ANIMATION_DELAY)]

\* the first timer of onSuccess (lines 200-207), on the session: the click
\* is issued and the cooldown timer armed
replay(s) ==
    [s EXCEPT !.replayTimers = Tail(@),
              !.replays = @ + 1,
              !.cooldownTimers = Append(@, CHALLENGE_TIMEOUT)]

\* the successful submit triggers of a session so far
passes(s) == s.successCalls + Len(s.successTimers)

(***************************************************************************)
(* Click hook and its completion callback                                  *)
(***************************************************************************)
\* the guard of the click hook (line 175)
hookGuard(active) == active

\* event.preventDefault / stopPropagation / stopImmediatePropagation (lines
\* 191-193), on what the host has done with the event: they keep the host
\* from acting only while the event is still being dispatched
suppress(hostActed, dispatching) == IF dispatching THEN FALSE ELSE hostActed

\* a completion callback that decides on the settings of the script's start
\* and hands them to the session
startupCallback(g, s, h, b, probs) ==
    IF ~shouldBeActive(DEFAULT_SETTINGS, h) THEN g
    ELSE showMathChallenge([g EXCEPT !.hostActed = suppress(@, FALSE)],
                           DEFAULT_SETTINGS, b, probs)

\* a completion callback that starts a session whatever the gate policy says
challengesAlways(g, s, h, b, probs) ==
    showMathChallenge([g EXCEPT !.hostActed = suppress(@, FALSE)], s, b, probs)

\* the callback of loadSettings().then in the click hook (lines 181-209), on
\* the gate state g = [active, sessions, hostActed]: the flag, the closures,
\* and what the host has done with the click.  It runs in a later task than
\* the dispatch of the click.
thenCallback(g, s, h, b, probs) ==
    IF ~shouldBeActive(s, h) THEN g
    ELSE showMathChallenge([g EXCEPT !.hostActed = suppress(@, FALSE)],
                           s, b, probs)

\* the store reads the k hooks of a click start, one per hook
startLoads(ls, active, l, k) ==
    IF hookGuard(active) THEN ls
    ELSE [ls EXCEPT ![l] = @ + Min(k, MaxLoads - inFlight(ls))]

\* a load that falls back to the defaults when the store fails
defaultsOnError(current, stored, failed) ==
    IF failed THEN DEFAULT_SETTINGS ELSE validateSettings(stored)

\* the settings loadSettings resolves with (lines 56-80).  failed: the store
\* API is missing (59-63), the callback finds chrome.runtime.lastError
\* (66-68), or the call throws (75-78); each resolves with the settings
\* variable as it is.
loadSettings(current, stored, failed) ==
    IF failed THEN current ELSE validateSettings(stored)

\* an assignment that writes the loaded values into the settings object the
\* displayed session closed over
writesThrough(ss, s) ==
    [n \in 1..Len(ss) |->
        IF ss[n].inDOM
        THEN [ss[n] EXCEPT !.numProblems = s.numProblems,
                           !.timeLimit = s.timeLimit]
        ELSE ss[n]]

\* the closures after settings = validateSettings(result) (line 70): the
\* variable is bound to a new object, and the object a session received as
\* currentSettings (line 226) is not written
reassign(ss, s) == ss

\* the gate state when the completion callback of load l starts
gate(l) ==
    [active |-> challengeActive, sessions |-> sessions, hostActed |-> l.hostActed]

\* the reads in flight after the callback of read l of a user click has
\* run: when it has started a session, the reads of the other hooks of
\* that click are tagged
tagTwins(ls, l, started) ==
    IF started /\ l.twin = "waits"
    THEN [ls EXCEPT ![l] = 0,
                    ![[l EXCEPT !.twin = "started"]] = @ + ls[l]]
    ELSE ls

\* a cooldown that leaves the mark of the control as it finds it
keepMark(btn) == btn

\* the mark the cooldown timer gives the control (line 206)
rearm(btn) == [btn EXCEPT !.gadiProtected = "true"]

(***************************************************************************)
(* Time                                                                    *)
(***************************************************************************)
\* the remaining times of all pending one-shot timers
timesOf(s) ==
    {s.successTimers[i] : i \in 1..Len(s.successTimers)}
    \cup {s.replayTimers[i] : i \in 1..Len(s.replayTimers)}
    \cup {s.cooldownTimers[i] : i \in 1..Len(s.cooldownTimers)}

pendingTimes == UNION {timesOf(sessions[n]) : n \in 1..Len(sessions)}

\* the time until the next pending timer is due (0 when none is pending)
nextDue ==
    IF pendingTimes = {} THEN 0
    ELSE CHOOSE x \in pendingTimes : \A y \in pendingTimes : x <= y

elapse(timers, d) == [i \in 1..Len(timers) |-> timers[i] - d]

elapseSessions(ss, d) ==
    [n \in 1..Len(ss) |->
        [ss[n] EXCEPT !.successTimers = elapse(@, d),
                      !.replayTimers = elapse(@, d),
                      !.cooldownTimers = elapse(@, d)]]

(***************************************************************************)
(* Initial state: the script has run to its end; the initial               *)
(* loadSettings() is in flight and no control is wired yet.                *)
(***************************************************************************)
unwired == [b \in Buttons |-> [gadiProtected |-> "", listeners |-> 0]]

\* no function is being applied on its own
idle == [fn |-> "none"]

ScriptLoaded ==
    /\ challengeActive = FALSE
    /\ settings = DEFAULT_SETTINGS
    /\ store \in StoredSettings
    /\ scanning = FALSE
    /\ buttons = unwired
    /\ loads = [l \in LoadKinds |-> IF l = InitLoad THEN 1 ELSE 0]
    /\ sessions = <<>>

\* the globals of the settings editor before its init has run (popup.js
\* lines 15-17): isLoading = false, loadTimeout = null (0), and no call to
\* the store yet
popupLoaded == [isLoading |-> FALSE, loadTimeout |-> 0, ops |-> <<>>]

Init == ScriptLoaded /\ call = idle /\ popup = popupLoaded

(***************************************************************************)
(* Actions                                                                 *)
(***************************************************************************)
\* the user clicks a wired control: each hook of the control runs to its
\* return, and the host handles the click
UserClick(b) ==
    /\ buttons[b].listeners > 0
    /\ ~hookGuard(challengeActive)
          => /\ inFlight(loads) + buttons[b].listeners <= MaxLoads
             /\ buttons[b].listeners > 1
                   => \A w \in Twins \ {"none"} : loads[ClickLoad(b, TRUE, w)] = 0
    /\ loads' = startLoads(loads, challengeActive,
                           ClickLoad(b, TRUE, twinOf(buttons[b].listeners)),
                           buttons[b].listeners)
    /\ UNCHANGED <<challengeActive, settings, store, scanning, buttons, sessions, call, popup>>

\* the callback of chrome.storage.sync.get runs (lines 65-74), followed by
\* what the caller chained on the promise
LoadComplete(l, failed) ==
    /\ loads[l] > 0
    /\ LET s  == loadSettings(settings, store, failed)
           ss == IF failed THEN sessions ELSE reassign(sessions, s)
           ls == [loads EXCEPT ![l] = @ - 1]
       IN  /\ settings' = s
           /\ CASE l.origin = "init" ->
                     /\ buttons' = findAndProtectSendButtons(buttons)
                     /\ scanning' = TRUE
                     /\ sessions' = ss
                     /\ loads' = ls
                     /\ UNCHANGED challengeActive
                [] l.origin = "change" ->
                     /\ sessions' = ss
                     /\ loads' = ls
                     /\ UNCHANGED <<buttons, scanning, challengeActive>>
                [] l.origin = "click" ->
                     \E probs \in ProblemSets(s.numProblems), hour \in Hours :
                       LET g0 == [gate(l) EXCEPT !.sessions = ss]
                           g1 == thenCallback(g0, s, hour, l.button, probs)
                       IN  /\ Len(collect(g1.sessions)) <= MaxSessions
                           /\ challengeActive' = g1.active
                           /\ sessions' = collect(g1.sessions)
                           /\ loads' = tagTwins(ls, l, g1.sessions # g0.sessions)
                           /\ UNCHANGED <<buttons, scanning>>
    /\ UNCHANGED <<store, call, popup>>

\* the rescan interval fires
Scan ==
    /\ scanning
    /\ buttons' = findAndProtectSendButtons(buttons)
    /\ UNCHANGED <<challengeActive, settings, store, scanning, loads, sessions, call, popup>>

\* the user edits the answer inputs of the displayed challenge
UserInput(n) ==
    /\ n \in 1..Len(sessions)
    /\ sessions[n].inDOM
    /\ \E vals \in AnswerSheets(sessions[n].currentProblems) :
          sessions' = [sessions EXCEPT
                ![n].inputs = [i \in 1..Len(vals) |-> [@[i] EXCEPT !.value = vals[i]]]]
    /\ UNCHANGED <<challengeActive, settings, store, scanning, buttons, loads, call, popup>>

\* a submit trigger: the submit button (line 601) or Enter on the last
\* input (line 487); both call checkAllAnswers
Submit(n) ==
    /\ n \in 1..Len(sessions)
    /\ sessions[n].inDOM
    /\ allCorrect(sessions[n]) => pendingIn(sessions) < MaxSubmits
    /\ sessions' = [sessions EXCEPT ![n] = checkAllAnswers(@)]
    /\ UNCHANGED <<challengeActive, settings, store, scanning, buttons, loads, call, popup>>

\* the user clicks the backdrop of the displayed challenge
BackdropClick(n) ==
    /\ n \in 1..Len(sessions)
    /\ sessions[n].inDOM
    /\ sessions' = collect([sessions EXCEPT ![n] = dismissSession(@)])
    /\ challengeActive' = FALSE
    /\ UNCHANGED <<settings, store, scanning, buttons, loads, call, popup>>

\* the countdown interval of the displayed session n fires
Tick(n) ==
    /\ n \in 1..Len(sessions)
    /\ sessions[n].inDOM
    /\ sessions[n].timerInterval
    /\ sessions[n].timeLimit - sessions[n].timeRemaining < MaxTicks
    /\ sessions[n].expiries < MaxExpiries
    /\ \E probs \in ProblemSets(sessions[n].numProblems) :
          sessions' = [sessions EXCEPT ![n] = countdownTick(@, probs)]
    /\ UNCHANGED <<challengeActive, settings, store, scanning, buttons, loads, call, popup>>

\* the value onSuccess gives the flag before it schedules the replay (line 198)
pausedDuringReplay == TRUE

\* the mark the replay timer gives the control before it clicks it (line 201)
unmarked == ""

\* the teardown timer of a successful checkAllAnswers fires (lines 576-580):
\* backdrop.remove(), challengeActive = false, onSuccess()
SuccessTimer(n) ==
    /\ n \in 1..Len(sessions)
    /\ sessions[n].successTimers # <<>>
    /\ Head(sessions[n].successTimers) = 0
    /\ sessions' = collect([sessions EXCEPT ![n] = teardown(@)])
    /\ challengeActive' = pausedDuringReplay
    /\ UNCHANGED <<settings, store, scanning, buttons, loads, call, popup>>

\* the first timer of onSuccess fires (lines 200-207): the control is
\* unmarked and clicked, each of its hooks runs to its return, the host
\* handles the click, and the cooldown timer is armed
ReplayTimer(n) ==
    /\ n \in 1..Len(sessions)
    /\ sessions[n].replayTimers # <<>>
    /\ Head(sessions[n].replayTimers) = 0
    /\ LET b == sessions[n].button
       IN  /\ buttons' = [buttons EXCEPT ![b].gadiProtected = unmarked]
           /\ loads' = startLoads(loads, challengeActive,
                                  ClickLoad(b, FALSE, "none"),
                                  buttons[b].listeners)
    /\ sessions' = collect([sessions EXCEPT ![n] = replay(@)])
    /\ UNCHANGED <<challengeActive, settings, store, scanning, call, popup>>

\* the second timer of onSuccess fires (lines 204-207)
CooldownTimer(n) ==
    /\ n \in 1..Len(sessions)
    /\ sessions[n].cooldownTimers # <<>>
    /\ Head(sessions[n].cooldownTimers) = 0
    /\ sessions' = collect([sessions EXCEPT ![n].cooldownTimers = Tail(@)])
    /\ challengeActive' = FALSE
    /\ buttons' = [buttons EXCEPT ![sessions[n].button] = rearm(@)]
    /\ UNCHANGED <<settings, store, scanning, loads, call, popup>>

\* time passes until the next pending timer is due
Advance ==
    /\ nextDue > 0
    /\ sessions' = elapseSessions(sessions, nextDue)
    /\ UNCHANGED <<challengeActive, settings, store, scanning, buttons, loads, call, popup>>

\* the settings editor overwrites the store; the onChanged listener of the
\* script starts a reload (lines 635-640)
StoreWrite(v) ==
    /\ v # store
    /\ inFlight(loads) < MaxLoads
    /\ store' = v
    /\ loads' = [loads EXCEPT ![ChangeLoad] = @ + 1]
    /\ UNCHANGED <<challengeActive, settings, scanning, buttons, sessions, call, popup>>

Next ==
    \/ \E b \in Buttons : UserClick(b)
    \/ \E l \in LoadKinds, failed \in BOOLEAN : LoadComplete(l, failed)
    \/ Scan
    \/ \E n \in 1..MaxSessions : UserInput(n)
    \/ \E n \in 1..MaxSessions : Submit(n)
    \/ \E n \in 1..MaxSessions : BackdropClick(n)
    \/ \E n \in 1..MaxSessions : Tick(n)
    \/ \E n \in 1..MaxSessions : SuccessTimer(n)
    \/ \E n \in 1..MaxSessions : ReplayTimer(n)
    \/ \E n \in 1..MaxSessions : CooldownTimer(n)
    \/ Advance
    \/ \E v \in StoredSettings : StoreWrite(v)

Spec == Init /\ [][Next]_vars

\* timers that are due fire, and time passes while none is due
FairSpec ==
    /\ Spec
    /\ WF_vars(Advance)
    /\ WF_vars(\E n \in 1..MaxSessions : SuccessTimer(n))
    /\ WF_vars(\E n \in 1..MaxSessions : ReplayTimer(n))
    /\ WF_vars(\E n \in 1..MaxSessions : CooldownTimer(n))

(***************************************************************************)
(* The functions of the script, each applied on its own to one input: the  *)
(* initial state draws the input, the action applies the function.         *)
(***************************************************************************)
HoursOfDay == 0..23

\* settings objects that differ in what the gate policy reads
Configurations ==
    {[DEFAULT_SETTINGS EXCEPT !.enabled = e, !.nightMode = n] : e, n \in BOOLEAN}

\* what the store may hold under a flag key and under a number key: what
\* the settings editor writes (a boolean; the result of parseInt, null when
\* it was NaN), nothing, or a text
RawFlags == {RawBool(TRUE), RawBool(FALSE), RawAbsent, RawNull}

RawNumbers ==
    {RawAbsent, RawNull, RawText(<<>>), RawText(<<"a", "b", "c">>), RawText(<<"7">>)}
    \cup {RawInt(n) : n \in {-5, 0, 1, 3, 5, 10, 11, 60, 3600, 3601}}

StoredItems ==
    [enabled : RawFlags, nightMode : RawFlags,
     numProblems : RawNumbers, timeLimit : RawNumbers]

\* the results of the calls of Math.floor(Math.random() * n) of one
\* generateMathProblem, as <<r1, r2, op, r3, r4>>: the two draws of lines
\* 137-138 are made for a multiplication only, and num1 and num2, which a
\* multiplication does not use, take the ends of their range there
GeneratorDraws ==
    {<<r1, r2, op, 0, 0>> :
        r1 \in floorRandom(25), r2 \in floorRandom(25), op \in {0, 1}}
    \cup {<<r1, r2, 2, r3, r4>> :
        r1 \in {0, 24}, r2 \in {0, 24},
        r3 \in floorRandom(12), r4 \in floorRandom(12)}

\* problems for the sessions the functions are applied to: 5 + 5, 5 - 5
\* and 2 x 2
SampleProblems == {generateMathProblem(0, 0, op, 0, 0) : op \in floorRandom(3)}

SampleSets == UNION {[1..n -> SampleProblems] : n \in {1, 2}}

\* what the user may type into the input of a problem with answer a: nothing,
\* the answer, another number, the answer with a fraction, letters
TypedTexts(a) ==
    {<<>>, ToText(a), WrongText, ToText(a) \o <<".", "5">>, <<"a", "b", "c">>}

TypedSheets(probs) ==
    {sheet \in [1..Len(probs) -> UNION {TypedTexts(probs[i].answer) : i \in 1..Len(probs)}] :
        \A i \in 1..Len(probs) : sheet[i] \in TypedTexts(probs[i].answer)}

\* the settings a sample session is started with
sampleSettings(probs) ==
    [DEFAULT_SETTINGS EXCEPT !.numProblems = Len(probs), !.timeLimit = 5]

\* the session showMathChallenge starts for the problems probs
shown(probs) ==
    LET g == showMathChallenge([active |-> FALSE, sessions |-> <<>>, hostActed |-> FALSE],
                               sampleSettings(probs), "send", probs)
    IN  g.sessions[1]

\* the session after the user has typed a text into every input
typed(s, sheet) ==
    [s EXCEPT !.inputs = [i \in 1..Len(@) |-> [@[i] EXCEPT !.value = inputValue(sheet[i])]]]

pending == "pending"

\* the gate state in which the completion callback of a user click on the
\* send control runs when nothing else has happened since the click
afterClick ==
    [active |-> FALSE, sessions |-> <<>>, hostActed |-> hostAction(FALSE)]

FnInit ==
    /\ ScriptLoaded
    /\ popup = popupLoaded
    /\ \/ call \in [fn : {"shouldBeActive"}, s : Configurations, hour : HoursOfDay,
                    done : {FALSE}, result : {pending}]
       \/ call \in [fn : {"validateSettings"}, items : StoredItems,
                    done : {FALSE}, result : {pending}]
       \/ call \in [fn : {"generateMathProblem"}, draws : GeneratorDraws,
                    done : {FALSE}, result : {pending}]
       \/ \E probs \in SampleSets :
             call \in [fn : {"showMathChallenge"}, probs : {probs},
                       done : {FALSE}, result : {pending}]
       \/ \E probs \in SampleSets : \E sheet \in TypedSheets(probs) :
             call = [fn |-> "checkAllAnswers", session |-> typed(shown(probs), sheet),
                     done |-> FALSE, result |-> pending]
       \/ \E probs \in SampleSets : \E sheet \in TypedSheets(probs) :
             \E fresh \in [1..Len(probs) -> SampleProblems] :
                call = [fn |-> "handleTimerExpiration",
                        session |-> typed(shown(probs), sheet), probs |-> fresh,
                        done |-> FALSE, result |-> pending]
       \/ \E s \in Configurations : \E probs \in ProblemSets(s.numProblems) :
             call \in [fn : {"thenCallback"}, s : {s}, hour : HoursOfDay,
                       probs : {probs}, done : {FALSE}, result : {pending}]

program == <<challengeActive, settings, store, scanning, buttons, loads, sessions>>

ApplyShouldBeActive ==
    /\ call.fn = "shouldBeActive" /\ ~call.done
    /\ call' = [call EXCEPT !.done = TRUE, !.result = shouldBeActive(call.s, call.hour)]
    /\ UNCHANGED <<program, popup>>

\* the callback of chrome.storage.sync.get validates the items it is handed
ApplyValidateSettings ==
    /\ call.fn = "validateSettings" /\ ~call.done
    /\ LET result == storageGet(DEFAULT_SETTINGS, call.items)
       IN  call' = [call EXCEPT !.done = TRUE,
                                !.result = [content |-> validateSettings(result),
                                            popup   |-> validateSettings_popup(result)]]
    /\ UNCHANGED <<program, popup>>

ApplyGenerateMathProblem ==
    /\ call.fn = "generateMathProblem" /\ ~call.done
    /\ LET r == call.draws
       IN  call' = [call EXCEPT !.done = TRUE,
                                !.result = generateMathProblem(r[1], r[2], r[3], r[4], r[5])]
    /\ UNCHANGED <<program, popup>>

ApplyShowMathChallenge ==
    /\ call.fn = "showMathChallenge" /\ ~call.done
    /\ call' = [call EXCEPT !.done = TRUE, !.result = shown(call.probs)]
    /\ UNCHANGED <<program, popup>>

ApplyCheckAllAnswers ==
    /\ call.fn = "checkAllAnswers" /\ ~call.done
    /\ call' = [call EXCEPT !.done = TRUE, !.result = checkAllAnswers(call.session)]
    /\ UNCHANGED <<program, popup>>

ApplyHandleTimerExpiration ==
    /\ call.fn = "handleTimerExpiration" /\ ~call.done
    /\ call' = [call EXCEPT !.done = TRUE,
                            !.result = handleTimerExpiration(call.session, call.probs)]
    /\ UNCHANGED <<program, popup>>

ApplyThenCallback ==
    /\ call.fn = "thenCallback" /\ ~call.done
    /\ call' = [call EXCEPT !.done = TRUE,
                            !.result = thenCallback(afterClick, call.s, call.hour,
                                                    "send", call.probs)]
    /\ UNCHANGED <<program, popup>>

FnNext ==
    \/ ApplyShouldBeActive
    \/ ApplyValidateSettings
    \/ ApplyGenerateMathProblem
    \/ ApplyShowMathChallenge
    \/ ApplyCheckAllAnswers
    \/ ApplyHandleTimerExpiration
    \/ ApplyThenCallback

FnSpec == FnInit /\ [][FnNext]_vars

(***************************************************************************)
(* The settings editor (popup.js).  Every saveSettings() and               *)
(* loadSettings() that reaches the store is an operation with a timer of   *)
(* its own (SAVE_TIMEOUT and LOAD_TIMEOUT are both 3000 ms, so the timers  *)
(* fire in the order they were armed) and a store callback that may arrive *)
(* at any time, or never.  The store API is taken to exist.                *)
(***************************************************************************)
MaxOps == 3

\* a call to the store: its timer is pending, fired or cleared; its callback
\* is pending or has arrived; its promise is resolved or not
newOp(kind) ==
    [kind |-> kind, timer |-> "pending", callback |-> "pending", resolved |-> FALSE]

\* clearTimeout(h), h being the operation whose timer the handle names
clearTimeout(p, h) ==
    IF h = 0 THEN p
    ELSE [p EXCEPT !.ops[h].timer = IF @ = "pending" THEN "cleared" ELSE @]

\* saveSettings up to its return (popup.js lines 122-171)
saveSettings_popup(p) ==
    IF p.isLoading THEN p
    ELSE [p EXCEPT !.isLoading = TRUE, !.ops = Append(@, newOp("save"))]

\* loadSettings up to its return (popup.js lines 177-246): the handle of
\* its timer goes to the global loadTimeout
loadSettings_popup(p) ==
    IF p.isLoading THEN p
    ELSE [p EXCEPT !.isLoading = TRUE,
                   !.ops = Append(@, newOp("load")),
                   !.loadTimeout = Len(p.ops) + 1]

\* the click handler of the test button (popup.js lines 304-313)
testBtn(p) ==
    loadSettings_popup([clearTimeout(p, p.loadTimeout) EXCEPT
                            !.loadTimeout = 0, !.isLoading = FALSE])

\* the timer of operation i fires (popup.js lines 139-144 and 197-206)
timeoutCallback(p, i) ==
    [p EXCEPT !.isLoading = FALSE,
              !.ops[i].timer = "fired",
              !.ops[i].resolved = TRUE]

\* the store calls back for operation i (popup.js lines 147-161 and
\* 209-229): a save clears its own timer, a load clears the timer whose
\* handle is in loadTimeout
storeCallback(p, i) ==
    LET q == IF p.ops[i].kind = "save"
             THEN clearTimeout(p, i)
             ELSE [clearTimeout(p, p.loadTimeout) EXCEPT !.loadTimeout = 0]
    IN  [q EXCEPT !.isLoading = FALSE,
                  !.ops[i].callback = "arrived",
                  !.ops[i].resolved = TRUE]

\* init (popup.js lines 323-339) has run
initialised(p) == p.ops # <<>>

\* init: setupEvents(), then loadSettings()
PopupInit ==
    /\ ~initialised(popup)
    /\ popup' = loadSettings_popup(popup)
    /\ UNCHANGED <<program, call>>

\* the user changes a setting or resets them (popup.js lines 251-258 and
\* 274-302): the handler ends in saveSettings()
PopupEdit ==
    /\ initialised(popup)
    /\ Len(popup.ops) < MaxOps
    /\ popup' = saveSettings_popup(popup)
    /\ UNCHANGED <<program, call>>

\* the user clicks the test button
PopupTest ==
    /\ initialised(popup)
    /\ Len(popup.ops) < MaxOps
    /\ popup' = testBtn(popup)
    /\ UNCHANGED <<program, call>>

PopupTimeout(i) ==
    /\ i \in 1..Len(popup.ops)
    /\ popup.ops[i].timer = "pending"
    /\ \A j \in 1..(i - 1) : popup.ops[j].timer # "pending"
    /\ popup' = timeoutCallback(popup, i)
    /\ UNCHANGED <<program, call>>

PopupCallback(i) ==
    /\ i \in 1..Len(popup.ops)
    /\ popup.ops[i].callback = "pending"
    /\ popup' = storeCallback(popup, i)
    /\ UNCHANGED <<program, call>>

PopupNext ==
    \/ PopupInit
    \/ PopupEdit
    \/ PopupTest
    \/ \E i \in 1..MaxOps : PopupTimeout(i)
    \/ \E i \in 1..MaxOps : PopupCallback(i)

PopupSpec == Init /\ [][PopupNext]_vars

(***************************************************************************)
(* Properties                                                              *)
(***************************************************************************)
\* a session is Active while its challenge is displayed and no submission
\* of it has passed
Active(s) == s.inDOM /\ passes(s) = 0

\* the controls the locator wires
Wired == {b \in Buttons : isVisibleSendButton(b)}

\* C1: when the completion callback of a user click's load has started a
\* session (the gate policy said intercept on the settings loaded for that
\* click), the host has not carried out its own action for the click.
C1_HostActionSuppressed ==
    [][\A l \in LoadKinds, failed \in BOOLEAN, hour \in Hours :
          (/\ LoadComplete(l, failed)
           /\ l.origin = "click" /\ l.trusted
           /\ ~challengeActive /\ challengeActive'
           /\ shouldBeActive(settings', hour))
          => \A probs \in ProblemSets(settings'.numProblems) :
                ~thenCallback(gate(l), settings', hour, l.button, probs).hostActed]_vars

\* C2: a load completion that happens while a session is Active leaves that
\* session in place: it neither replaces it nor starts another one.
C2_NoActivationWhileActive ==
    [][\A l \in LoadKinds, failed \in BOOLEAN :
          LoadComplete(l, failed) =>
             \A n \in 1..Len(sessions) :
                Active(sessions[n]) =>
                   /\ \E m \in 1..Len(sessions') : sessions'[m] = sessions[n]
                   /\ Cardinality({m \in 1..Len(sessions') : sessions'[m].inDOM}) = 1]_vars

\* C3: the success callback of a session is invoked at most once, however
\* many submit triggers the user issued before the teardown.
C3_SuccessCallbackOnce ==
    \A n \in 1..Len(sessions) : sessions[n].successCalls <= 1

\* C4: a session that was dismissed by a click on its backdrop never has its
\* success callback invoked and never has the original action replayed.
C4_NoSuccessAfterDismiss ==
    \A n \in 1..Len(sessions) :
        sessions[n].dismissed =>
            sessions[n].successCalls = 0 /\ sessions[n].replays = 0

\* the displayed sessions among ss
displayed(ss) == {m \in 1..Len(ss) : ss[m].inDOM}

\* C5: of the loads that clicks have started while no session is displayed,
\* the first to complete with the gate on starts one session and sets the
\* flag, and every one that completes while the flag is set starts no
\* session and touches none: completing one after the other, in whichever
\* order, they start exactly one session.
C5_OneSessionPerBurst ==
    [][\A l \in LoadKinds, failed \in BOOLEAN :
          (LoadComplete(l, failed) /\ l.origin = "click") =>
             /\ challengeActive => sessions' = sessions /\ challengeActive'
             /\ (~challengeActive /\ displayed(sessions) = {}) =>
                   \/ sessions' = sessions /\ ~challengeActive'
                   \/ /\ challengeActive'
                      /\ Len(sessions') = Len(sessions) + 1
                      /\ Cardinality(displayed(sessions')) = 1]_vars

\* C5 witness: the load of one click has completed and started a session
\* while the load of another click is still in flight.
C5_Witness ==
    /\ challengeActive
    /\ \E n \in 1..Len(sessions) : Active(sessions[n])
    /\ \E l \in LoadKinds : l.origin = "click" /\ l.trusted /\ loads[l] > 0

\* C6: the original control is re-activated at most once for a session.
C6_ReplayAtMostOnce ==
    \A n \in 1..Len(sessions) : sessions[n].replays <= 1

\* C7: the hooks of the replay click return at their guard: the flag is set
\* when the click is issued, and no store read is started.
C7_ReplayNotIntercepted ==
    [][\A n \in 1..MaxSessions :
          ReplayTimer(n) => hookGuard(challengeActive) /\ loads' = loads]_vars

\* the control is marked handled and interception is not paused
Rearmed(b) == ~challengeActive /\ isProtected(buttons[b])

\* C8: the cooldown timer leaves the control marked handled and
\* interception not paused, so that the hook of the next user click goes on
\* to the gate; and every pass leads to such a state.
C8_RearmedAfterCooldown ==
    /\ [][\A n \in 1..MaxSessions :
             CooldownTimer(n) =>
                /\ ~challengeActive'
                /\ isProtected(buttons'[sessions[n].button])
                /\ ~hookGuard(challengeActive')]_vars
    /\ \A b \in Wired :
          (\E n \in 1..Len(sessions) :
              sessions[n].button = b /\ pendingTimers(sessions[n]) > 0)
          ~> Rearmed(b)

\* C8 witness: a session has passed twice and replayed twice, the cooldown
\* of its first replay has fired, and the control is handled and not paused.
C8_Witness ==
    \E n \in 1..Len(sessions) :
        /\ sessions[n].replays = 2
        /\ Len(sessions[n].cooldownTimers) = 1
        /\ Rearmed(sessions[n].button)

\* C9: a tick that takes the countdown of a displayed session to zero
\* replaces every problem by a fresh one, clears every input, resets the
\* remaining time to the session's time limit, and leaves the session
\* displayed with its countdown running, no teardown armed, no success
\* callback invoked and the flag as it was.
C9_ExpiryRenews ==
    [][\A n \in 1..MaxSessions :
          (Tick(n) /\ sessions[n].timeRemaining <= 1) =>
             LET s == sessions[n]
                 t == sessions'[n]
             IN  /\ t.currentProblems \in ProblemSets(s.numProblems)
                 /\ Len(t.inputs) = s.numProblems
                 /\ \A i \in 1..Len(t.inputs) :
                       /\ t.inputs[i].value = <<>>
                       /\ t.inputs[i].question = t.currentProblems[i].question
                       /\ t.inputs[i].correct = ToText(t.currentProblems[i].answer)
                 /\ t.timeRemaining = s.timeLimit
                 /\ t.inDOM /\ t.timerInterval
                 /\ t.expiries = s.expiries + 1
                 /\ t.successTimers = s.successTimers
                 /\ t.successCalls = s.successCalls
                 /\ t.replayTimers = s.replayTimers
                 /\ challengeActive' = challengeActive]_vars

\* C9 witness: a displayed session whose countdown has expired twice in a
\* row and has just been renewed.
C9_Witness ==
    \E n \in 1..Len(sessions) :
        /\ Active(sessions[n])
        /\ sessions[n].expiries >= 2
        /\ sessions[n].timeRemaining = sessions[n].timeLimit
        /\ \A i \in 1..Len(sessions[n].inputs) : sessions[n].inputs[i].value = <<>>

\* C10: an Active session with time limit 0 has no countdown and never
\* expires, and a step takes it out of Active only by a pass or a dismissal.
C10_NoCountdownNoOtherExit ==
    [][\A n \in 1..Len(sessions) :
          (Active(sessions[n]) /\ sessions[n].timeLimit = 0) =>
             /\ ~sessions[n].timerInterval /\ sessions[n].expiries = 0
             /\ \/ \E m \in 1..Len(sessions') :
                      /\ Active(sessions'[m])
                      /\ sessions'[m].currentProblems = sessions[n].currentProblems
                      /\ sessions'[m].timeLimit = 0
                      /\ ~sessions'[m].timerInterval
                \/ \E m \in 1..Len(sessions') :
                      sessions'[m].inDOM /\ passes(sessions'[m]) > 0
                \/ BackdropClick(n)]_vars

\* a text that is an integer numeral: an optional sign and digits, no more
IsIntegerText(text) ==
    LET a == IF text # <<>> /\ Head(text) \in {"-", "+"} THEN Tail(text) ELSE text
    IN  a # <<>> /\ DropDigits(a) = <<>>

\* the submission took the success branch: a teardown timer was armed
passed(before, after) == Len(after.successTimers) = Len(before.successTimers) + 1

\* C11: a submission succeeds if and only if the value of every input is an
\* integer numeral whose value is the answer of the problem of that input.
C11_PassIffAllIntegerEqual ==
    (call.fn = "checkAllAnswers" /\ call.done) =>
        (passed(call.session, call.result)
         <=> \A i \in 1..Len(call.session.inputs) :
                /\ IsIntegerText(call.session.inputs[i].value)
                /\ ParseInt(call.session.inputs[i].value)
                     = Num(call.session.currentProblems[i].answer))

\* C12: a submit trigger on an Active session whose answers are not all
\* correct leaves the session as it is (same problems, same inputs, same
\* remaining time, countdown still registered, no teardown armed, no success
\* callback) and leaves the flag as it is.
C12_FailedSubmissionChangesNothing ==
    [][\A n \in 1..MaxSessions :
          (Submit(n) /\ Active(sessions[n]) /\ ~allCorrect(sessions[n])) =>
             /\ Len(sessions') = Len(sessions)
             /\ sessions'[n] = sessions[n]
             /\ Active(sessions'[n])
             /\ sessions'[n].timerInterval = (sessions[n].timeLimit > 0)
             /\ challengeActive' = challengeActive]_vars

\* C12 witness: an Active session with a running countdown in which the user
\* has typed a wrong answer: a submit trigger takes the failure branch here
\* and ends in this same state.
C12_Witness ==
    \E n \in 1..Len(sessions) :
        /\ Active(sessions[n])
        /\ sessions[n].timerInterval
        /\ ~allCorrect(sessions[n])
        /\ \E i \in 1..Len(sessions[n].inputs) : sessions[n].inputs[i].value = WrongText
        /\ challengeActive

\* C13: the store read a click hook has started always comes to its
\* completion callback, where the gating decision is taken.
C13_DecisionReached ==
    \A l \in LoadKinds :
        l.origin = "click" => ((loads[l] > 0) ~> (loads[l] = 0))

\* C14: the completion callback of a click's store read decides on the
\* settings validated from what the store holds then: they become the
\* in-memory settings, a session is started only if the gate policy accepts
\* them, it is started whenever the policy accepts them at every hour and no
\* session is in the way, and the session takes its problem count and time
\* limit from them.
C14_DecisionOnFreshSettings ==
    [][\A l \in LoadKinds :
          (LoadComplete(l, FALSE) /\ l.origin = "click") =>
             LET fresh == validateSettings(store)
                 new   == sessions'[Len(sessions')]
             IN  /\ settings' = fresh
                 /\ (~challengeActive /\ \A hour \in Hours : shouldBeActive(fresh, hour))
                       => challengeActive'
                 /\ (~challengeActive /\ challengeActive') =>
                       /\ \E hour \in Hours : shouldBeActive(fresh, hour)
                       /\ new.inDOM
                       /\ new.numProblems = fresh.numProblems
                       /\ Len(new.currentProblems) = fresh.numProblems
                       /\ new.timeLimit = fresh.timeLimit
                       /\ new.timerInterval = (fresh.timeLimit > 0)]_vars

\* C14 witness: the settings editor has overwritten the store (the reload it
\* triggered is still in flight), and a session is Active that was started
\* on the settings validated from the overwritten store.
C14_Witness ==
    /\ loads[ChangeLoad] > 0
    /\ settings = validateSettings(store)
    /\ settings # DEFAULT_SETTINGS
    /\ \E n \in 1..Len(sessions) :
          /\ Active(sessions[n])
          /\ sessions[n].numProblems = validateSettings(store).numProblems
          /\ sessions[n].timeLimit = validateSettings(store).timeLimit

\* C15: shouldBeActive returns enabled and (not nightMode or hour >= 22 or
\* hour < 8), for every settings object and every hour of the day.
C15_GatePolicy ==
    (call.fn = "shouldBeActive" /\ call.done) =>
        /\ call.result
             = (call.s.enabled /\ (~call.s.nightMode \/ call.hour >= 22 \/ call.hour < 8))
        /\ ~call.s.enabled => ~call.result
        /\ (call.s.enabled /\ call.s.nightMode /\ call.hour = 23) => call.result
        /\ (call.s.enabled /\ call.s.nightMode /\ call.hour = 12) => ~call.result

\* C15 witness: the policy has been applied at hour 23 with enabled and
\* nightMode both set, and has said intercept.
C15_Witness ==
    /\ call.fn = "shouldBeActive" /\ call.done
    /\ call.s.enabled /\ call.s.nightMode /\ call.hour = 23
    /\ call.result

\* a stored value that holds no number: no value, null, or a text that is
\* not an integer numeral
Malformed(raw) ==
    \/ raw.k \in {"absent", "null"}
    \/ raw.k = "string" /\ ~IsIntegerText(raw.s)

\* C16: whatever the store holds, the validated settings (of the content
\* script and of the settings editor alike) have numProblems in 1..10 and
\* timeLimit in 0..3600, and a value that is absent or malformed yields the
\* default, 3 and 60.
C16_ValidatedInRange ==
    (call.fn = "validateSettings" /\ call.done) =>
        \A v \in {call.result.content, call.result.popup} :
            /\ v.numProblems \in 1..10
            /\ v.timeLimit \in 0..3600
            /\ Malformed(call.items.numProblems) => v.numProblems = 3
            /\ Malformed(call.items.timeLimit) => v.timeLimit = 60

\* C16 witness: a store with a non-numeric problem count and an oversized
\* time limit has been validated to the default and to the upper end.
C16_Witness ==
    /\ call.fn = "validateSettings" /\ call.done
    /\ call.items.numProblems = RawText(<<"a", "b", "c">>)
    /\ call.items.timeLimit = RawInt(3601)
    /\ call.result.content.numProblems = 3
    /\ call.result.content.timeLimit = 3600

\* C17: a stored timeLimit of 0 is validated to 0, the value for which a
\* session gets no countdown.
C17_ZeroKeptAsUnlimited ==
    (call.fn = "validateSettings" /\ call.done /\ call.items.timeLimit = RawInt(0)) =>
        /\ call.result.content.timeLimit = 0
        /\ ~timerEnabled(call.result.content)

\* C18: for a subtraction with drawn operands a and b the answer is
\* max(a, b) - min(a, b), it is not negative, and the prompt shows the
\* larger operand first.
C18_SubtractionNormalised ==
    (call.fn = "generateMathProblem" /\ call.done /\ call.result.question[2] = "-") =>
        LET a == call.draws[1] + 5
            b == call.draws[2] + 5
        IN  /\ call.result.answer = Max(a, b) - Min(a, b)
            /\ call.result.answer >= 0
            /\ call.result.question[1] = Max(a, b)
            /\ call.result.question[3] = Min(a, b)
            /\ call.result.question[1] >= call.result.question[3]

\* C18 witness: a subtraction has been generated whose first drawn operand
\* is the smaller one.
C18_Witness ==
    /\ call.fn = "generateMathProblem" /\ call.done
    /\ call.result.question[2] = "-"
    /\ call.draws[1] < call.draws[2]
    /\ call.result.answer > 0

\* C19: the operands of a generated addition or subtraction lie in 5..29,
\* those of a multiplication in 2..13.
C19_OperandRanges ==
    (call.fn = "generateMathProblem" /\ call.done) =>
        LET q == call.result.question
        IN  /\ q[2] \in {"+", "-"} => q[1] \in 5..29 /\ q[3] \in 5..29
            /\ q[2] = "x" => q[1] \in 2..13 /\ q[3] \in 2..13
            /\ q[2] \in {"+", "-", "x"}

\* C19 witness: a multiplication of the two ends of the small range has
\* been generated.
C19_Witness ==
    /\ call.fn = "generateMathProblem" /\ call.done
    /\ call.result.question = <<13, "x", 2>>

\* the value of a displayed prompt
valueOf(question) ==
    CASE question[2] = "+" -> question[1] + question[3]
      [] question[2] = "-" -> question[1] - question[3]
      [] question[2] = "x" -> question[1] * question[3]

\* every input of session s shows the prompt of its current problem and is
\* checked against the value of that prompt
inputsMatchPrompts(s) ==
    /\ Len(s.inputs) = Len(s.currentProblems)
    /\ \A i \in 1..Len(s.inputs) :
          /\ s.inputs[i].question = s.currentProblems[i].question
          /\ ParseInt(s.inputs[i].correct) = Num(valueOf(s.inputs[i].question))

\* C20: the answer of every generated problem is the value of its prompt,
\* and in a session, as started and as renewed on expiry, every input is
\* checked against the value of the prompt displayed for it.
C20_AnswerMatchesPrompt ==
    /\ (call.fn = "generateMathProblem" /\ call.done) =>
          call.result.answer = valueOf(call.result.question)
    /\ (call.fn \in {"showMathChallenge", "handleTimerExpiration"} /\ call.done) =>
          inputsMatchPrompts(call.result)

\* C20 witness: a session in which the user had typed answers has been
\* renewed on expiry with problems other than those it had.
C20_Witness ==
    /\ call.fn = "handleTimerExpiration" /\ call.done
    /\ Len(call.result.currentProblems) = 2
    /\ \A i \in 1..2 :
          /\ call.session.inputs[i].value # <<>>
          /\ call.result.currentProblems[i] # call.session.currentProblems[i]


\* a session has ended: its challenge is no longer displayed, or a
\* submission of it has passed
ended(s) == ~s.inDOM \/ passes(s) > 0

\* C22: a session that has ended (passed, dismissed or replaced) has no
\* countdown interval registered, so no tick or expiry of it fires again.
C22_CountdownClearedOnExit ==
    \A n \in 1..Len(sessions) : ended(sessions[n]) => ~sessions[n].timerInterval

\* C23: every control has at most one click hook attached.
C23_OneHookPerControl ==
    \A b \in Buttons : buttons[b].listeners <= 1

\* C28: an Active session has as many problems as the numProblems it was
\* started with, a number in 1..10, and one answer input per problem.
C28_ProblemCountKept ==
    \A n \in 1..Len(sessions) :
        Active(sessions[n]) =>
            /\ sessions[n].numProblems \in 1..10
            /\ Len(sessions[n].currentProblems) = sessions[n].numProblems
            /\ Len(sessions[n].inputs) = sessions[n].numProblems

\* C28 witness: an Active session of more than one problem whose countdown
\* has expired.
C28_Witness ==
    \E n \in 1..Len(sessions) :
        /\ Active(sessions[n])
        /\ sessions[n].numProblems > 1
        /\ sessions[n].expiries > 0

\* C29: in an Active session with a time limit, the remaining time is at
\* least 1 and at most the time limit whenever no tick handler is running.
C29_RemainingWithinLimit ==
    \A n \in 1..Len(sessions) :
        (Active(sessions[n]) /\ sessions[n].timeLimit > 0) =>
            /\ sessions[n].timeRemaining >= 1
            /\ sessions[n].timeRemaining <= sessions[n].timeLimit

\* C29 witness: an Active session whose countdown has ticked without
\* expiring.
C29_Witness ==
    \E n \in 1..Len(sessions) :
        /\ Active(sessions[n])
        /\ sessions[n].timeLimit > 1
        /\ sessions[n].timeRemaining = sessions[n].timeLimit - 1


\* C21: the read a hook starts for a user click starts no session when the
\* read of another hook of the same click has already started one: one user
\* click starts at most one session, however many hooks the rescan has
\* attached to the control.
C21_OneSessionPerClick ==
    [][\A l \in LoadKinds, failed \in BOOLEAN :
          (LoadComplete(l, failed) /\ l.twin = "started")
              => /\ challengeActive' = challengeActive
                 /\ \A m \in 1..Len(sessions') :
                       Active(sessions'[m]) =>
                           \E n \in 1..Len(sessions) : sessions[n] = sessions'[m]]_vars

\* C24: a load that fails resolves: its read is no longer in flight, the
\* settings in memory are unchanged, and the caller's continuation runs on
\* them (the first scan after the initial load, the gating decision of a
\* click hook).
C24_FailedLoadKeepsSettings ==
    [][\A l \in LoadKinds :
          LoadComplete(l, TRUE)
              => /\ settings' = settings
                 /\ inFlight(loads') = inFlight(loads) - 1
                 /\ l.origin = "init"
                       => /\ scanning'
                          /\ buttons' = findAndProtectSendButtons(buttons)
                 /\ l.origin = "click"
                       => \E probs \in ProblemSets(settings.numProblems),
                             hour \in Hours :
                            LET g1 == thenCallback(gate(l), settings, hour,
                                                   l.button, probs)
                            IN  /\ challengeActive' = g1.active
                                /\ sessions' = collect(g1.sessions)]_vars

\* C24 witness: the store has never been read with success, and a session
\* started on the defaults is Active.
C24_Witness ==
    /\ settings = DEFAULT_SETTINGS
    /\ validateSettings(store) # DEFAULT_SETTINGS
    /\ \E n \in 1..Len(sessions) :
          /\ Active(sessions[n])
          /\ sessions[n].numProblems = DEFAULT_SETTINGS.numProblems
          /\ sessions[n].timeLimit = DEFAULT_SETTINGS.timeLimit

\* a session started by the completion of a read while the flag is clear
\* takes the place of the displayed one (the subject of C2)
replaces(l) == l.origin = "click" /\ ~challengeActive

\* C30: a write to the store, and the completion of a reload or of the read
\* of another click, leave every Active session as it is, with the
\* numProblems and the timeLimit it was started with.
C30_SessionKeepsCapturedSettings ==
    [][\A n \in 1..Len(sessions) :
          Active(sessions[n]) =>
             /\ \A v \in StoredSettings :
                   StoreWrite(v) => sessions' = sessions
             /\ \A l \in LoadKinds, failed \in BOOLEAN :
                   (LoadComplete(l, failed) /\ ~replaces(l))
                       => sessions' = sessions]_vars

\* C30 witness: a session started with two problems and a time limit is
\* Active and has expired, and the settings in memory now ask for one
\* problem and no time limit.
C30_Witness ==
    \E n \in 1..Len(sessions) :
        /\ Active(sessions[n])
        /\ sessions[n].expiries > 0
        /\ sessions[n].numProblems = 2
        /\ settings.numProblems = 1
        /\ sessions[n].timeLimit > 0
        /\ settings.timeLimit = 0

\* a session has been dismissed by a click on its backdrop
cancelled(ss) == {n \in 1..Len(ss) : ss[n].dismissed}

\* C26: once a session has been dismissed and no challenge is displayed, the
\* flag is clear, the controls are still wired and the rescan interval is
\* registered, so that the hook of a later user click goes on to the gate.
C26_GateOpenAfterCancel ==
    (cancelled(sessions) # {} /\ displayed(sessions) = {})
        => /\ ~hookGuard(challengeActive)
           /\ \A b \in Wired : buttons[b].listeners > 0
           /\ scanning

\* C25: when the gate policy says no for the settings and the hour, the
\* completion callback of a click starts no session, leaves the flag clear
\* and does not keep the host from carrying out the click.
C25_GateOffLetsClickThrough ==
    (call.fn = "thenCallback" /\ call.done /\ ~shouldBeActive(call.s, call.hour))
        => /\ call.result.sessions = <<>>
           /\ ~call.result.active
           /\ call.result.hostActed

\* C25 witness: the extension is enabled in night mode only and the click
\* is made at noon; the callback has run and the host has carried out the
\* click.
C25_Witness ==
    /\ call.fn = "thenCallback" /\ call.done
    /\ call.s.enabled /\ call.s.nightMode /\ call.hour = 12
    /\ call.result.sessions = <<>>
    /\ call.result.hostActed

\* operation i of the settings editor is in flight: its promise is not
\* resolved
busy(p) == {i \in 1..Len(p.ops) : ~p.ops[i].resolved}

\* C27: the timer of a load or save whose store callback has not arrived
\* ends the operation (its promise resolves and isLoading is false); and a
\* store callback that arrives for an operation that has already ended
\* leaves the busy flag and the timer of another operation in flight as
\* they are.
C27_LateCallbackLeavesBusy ==
    [][\A i \in 1..MaxOps :
          /\ PopupTimeout(i)
                => ~popup'.isLoading /\ popup'.ops[i].resolved
          /\ (PopupCallback(i) /\ popup.ops[i].resolved /\ busy(popup) # {})
                => /\ popup'.isLoading = popup.isLoading
                   /\ \A j \in busy(popup) :
                         popup'.ops[j].timer = popup.ops[j].timer]_vars

=============================================================================
